---- MODULE Spec2Model ----
(***************************************************************************)
(* OrthoPerspectiveCamera (src/examples/fragment/main.js, lines 105-304):  *)
(* the navigation-mode registry, the user-input snapshot, fit() and the    *)
(* camera pair with its orthographic-frustum synchronization.              *)
(*                                                                         *)
(* A NavigationMode instance is a positive number; the model records, for  *)
(* every instance ever constructed, its id and the last set(...) call made *)
(* on it.  `last` is the instrumentation of the most recent operation: its *)
(* arguments, its outcome, the set(...) calls it made on navigation modes  *)
(* and the spheres it handed to controls.fitToSphere, and the calls of     *)
(* setOrthoCameraAspect it made.                                           *)
(***************************************************************************)
EXTENDS Integers, Sequences, FiniteSets

VARIABLES
    worldCount,         \* number of onWorldChanged events delivered so far
    _mode,              \* this._mode: an instance, or NULL
    _navigationModes,   \* this._navigationModes: NavModeID -> instance
    modeState,          \* instance -> [id, lastSet, prevent]
    mouseButtons,       \* this.controls.mouseButtons: button -> code
    _userInputButtons,  \* this._userInputButtons: captured button -> code
    enabled,            \* this.enabled (read by fit)
    inputDisabled,      \* the last setUserInput call was setUserInput(false)
    beforeDisable,      \* mouseButtons as they were when input was last disabled
    last,               \* instrumentation of the most recent operation
    everDisabled,       \* setUserInput(false) has been called on this instance
    beforeFirstDisable, \* mouseButtons before the first of the latest run of disables
    three,              \* this.three: the published current camera
    threeOrtho          \* this.threeOrtho: [left, right, top, bottom, zoom]

\* the history of setUserInput calls
history == <<everDisabled, beforeFirstDisable>>

\* the camera pair
cameras == <<three, threeOrtho>>

vars == <<worldCount, _mode, _navigationModes, modeState, mouseButtons,
          _userInputButtons, enabled, inputDisabled, beforeDisable, last,
          history, cameras>>

----------------------------------------------------------------------------
(* Bounds *)

MaxWorlds == 2      \* world-bind events explored
MaxCode == 1        \* button binding codes are 0..MaxCode
MaxMeshes == 2      \* meshes per fit call

----------------------------------------------------------------------------
(* Values *)

NULL == 0

NavModeIDs == {"Orbit", "FirstPerson", "Plan"}

\* an identifier outside the registry, as in setMode("Nonexistent")
UnknownIDs == {"Nonexistent"}

Buttons == {"left", "right", "middle", "wheel"}

EmptyObject == [b \in {} |-> 0]

NoButtons == [b \in Buttons |-> 0]

----------------------------------------------------------------------------
(* Instrumentation record of an operation *)

Op(op, modeArg, activeArg, meshes, offset, result, calls, fitCalls, before) ==
    [op |-> op, modeArg |-> modeArg, activeArg |-> activeArg,
     meshes |-> meshes, offset |-> offset, result |-> result,
     calls |-> calls, fitCalls |-> fitCalls, before |-> before,
     sync |-> << >>]

\* what an operation found when it was called: the current mode, whether that
\* instance was activated, and whether user input was disabled
Before ==
    [mode |-> _mode,
     active |-> IF _mode = NULL THEN FALSE ELSE modeState[_mode].lastSet = "true",
     inputDisabled |-> inputDisabled]

NoOp == Op("none", "", FALSE, << >>, 0, "ok", << >>, << >>,
           [mode |-> NULL, active |-> FALSE, inputDisabled |-> FALSE])

\* a call  instance.set(active, {preventTargetAdjustment: prevent})
SetCall(inst, active, prevent) ==
    [inst |-> inst, active |-> active, prevent |-> prevent]

\* the effect of a sequence of set(...) calls on the instances
RECURSIVE ApplyCalls(_, _)
ApplyCalls(ms, calls) ==
    IF calls = << >> THEN ms
    ELSE LET c == Head(calls)
         IN ApplyCalls([ms EXCEPT ![c.inst] =
                           [id |-> ms[c.inst].id,
                            lastSet |-> IF c.active THEN "true" ELSE "false",
                            prevent |-> c.active /\ c.prevent]],
                       Tail(calls))

----------------------------------------------------------------------------
(* The mode getter, lines 144-149 *)

\* the getter with its test inverted
mode_inverted ==
    IF _mode # NULL THEN "NotInitialized" ELSE "ok"

\* get mode(): whether it returns this._mode or throws
mode ==
    IF _mode = NULL THEN "NotInitialized" ELSE "ok"

getMode ==
    /\ last' = Op("mode", "", FALSE, << >>, 0, mode, << >>, << >>, Before)
    /\ UNCHANGED <<worldCount, _mode, _navigationModes, modeState,
                   mouseButtons, _userInputButtons, enabled, inputDisabled,
                   beforeDisable, history, cameras>>

----------------------------------------------------------------------------
(* The onWorldChanged handler, lines 167-174 *)

\* the n-th world-bind event constructs instances 3n-2 (an OrbitMode),
\* 3n-1 (a FirstPersonMode) and 3n (a PlanMode)
ClassId(inst) ==
    CASE inst % 3 = 1 -> "Orbit"
      [] inst % 3 = 2 -> "FirstPerson"
      [] inst % 3 = 0 -> "Plan"

\* the registry with the FirstPersonMode and the PlanMode under each other's key
FreshModes_swapped(n) ==
    [id \in NavModeIDs |->
        3 * (n - 1) + (CASE id = "Orbit" -> 1
                         [] id = "FirstPerson" -> 3
                         [] id = "Plan" -> 2)]

\* the registry refilled with the instances of the first world
FreshModes_reused(n) ==
    [id \in NavModeIDs |->
        CASE id = "Orbit" -> 1 [] id = "FirstPerson" -> 2 [] id = "Plan" -> 3]

\* lines 169-171: the registry built by the n-th world-bind event
FreshModes(n) ==
    [id \in NavModeIDs |->
        3 * (n - 1) + (CASE id = "Orbit" -> 1
                         [] id = "FirstPerson" -> 2
                         [] id = "Plan" -> 3)]

\* the first activation made without the option
FirstActivation_plain(inst) == SetCall(inst, TRUE, FALSE)

\* line 173: this.mode.set(true, { preventTargetAdjustment: true })
FirstActivation(inst) == SetCall(inst, TRUE, TRUE)

\* the handler also publishing the perspective camera again
onWorldChanged_resetCamera ==
    /\ worldCount < MaxWorlds
    /\ worldCount' = worldCount + 1
    /\ LET fresh == FreshModes(worldCount + 1)
           orbit == fresh["Orbit"]
           call  == FirstActivation(orbit)
           n     == worldCount + 1
           built == [i \in (DOMAIN modeState) \cup (3 * n - 2 .. 3 * n) |->
                        IF i \in DOMAIN modeState THEN modeState[i]
                        ELSE [id |-> ClassId(i), lastSet |-> "none",
                              prevent |-> FALSE]]
       IN /\ _navigationModes' = fresh
          /\ _mode' = orbit
          /\ modeState' = ApplyCalls(built, <<call>>)
          /\ last' = Op("worldChanged", "", FALSE, << >>, 0, "ok", <<call>>,
                        << >>, Before)
    /\ three' = "persp"
    /\ UNCHANGED <<mouseButtons, _userInputButtons, enabled, inputDisabled,
                   beforeDisable, history, threeOrtho>>

onWorldChanged ==
    /\ worldCount < MaxWorlds
    /\ worldCount' = worldCount + 1
    /\ LET fresh == FreshModes(worldCount + 1)
           orbit == fresh["Orbit"]
           call  == FirstActivation(orbit)
           n     == worldCount + 1
           built == [i \in (DOMAIN modeState) \cup (3 * n - 2 .. 3 * n) |->
                        IF i \in DOMAIN modeState THEN modeState[i]
                        ELSE [id |-> ClassId(i), lastSet |-> "none",
                              prevent |-> FALSE]]
       IN /\ _navigationModes' = fresh
          /\ _mode' = orbit
          /\ modeState' = ApplyCalls(built, <<call>>)
          /\ last' = Op("worldChanged", "", FALSE, << >>, 0, "ok", <<call>>,
                        << >>, Before)
    /\ UNCHANGED <<mouseButtons, _userInputButtons, enabled, inputDisabled,
                   beforeDisable, history, cameras>>

----------------------------------------------------------------------------
(* set(mode), lines 188-197 *)

\* set(mode) without its early return
IsCurrent_never(id) == FALSE

\* line 190: this.mode.id === mode
IsCurrent(id) == modeState[_mode].id = id

\* what set(mode) leaves alone on every path
SetFrame ==
    UNCHANGED <<worldCount, _navigationModes, mouseButtons, _userInputButtons,
                enabled, inputDisabled, beforeDisable, history, cameras>>

\* line 189 with a getter that returns null: set returns silently
setUninitialized_silent(id) ==
    /\ last' = Op("set", id, FALSE, << >>, 0, "ok", << >>, << >>, Before)
    /\ UNCHANGED <<_mode, modeState>>
    /\ SetFrame

\* line 189 before any world-bind event: the getter throws before the
\* comparison with null
setUninitialized(id) ==
    /\ last' = Op("set", id, FALSE, << >>, 0, "NotInitialized", << >>,
                  << >>, Before)
    /\ UNCHANGED <<_mode, modeState>>
    /\ SetFrame

\* lines 195-196 with the new mode activated before the old one is deactivated
setSwitch_activateFirst(id) ==
    LET off == SetCall(_mode, FALSE, FALSE)
    IN IF id \notin DOMAIN _navigationModes
       THEN /\ modeState' = ApplyCalls(modeState, <<off>>)
            /\ last' = Op("set", id, FALSE, << >>, 0, "UnknownMode",
                          <<off>>, << >>, Before)
            /\ UNCHANGED _mode
            /\ SetFrame
       ELSE LET new == _navigationModes[id]
                on  == SetCall(new, TRUE, FALSE)
            IN /\ _mode' = new
               /\ modeState' = ApplyCalls(modeState, <<on, off>>)
               /\ last' = Op("set", id, FALSE, << >>, 0, "ok",
                             <<on, off>>, << >>, Before)
               /\ SetFrame

\* lines 191-196: the requested id is not the current one
setSwitch(id) ==
    LET off == SetCall(_mode, FALSE, FALSE)        \* line 191
    IN IF id \notin DOMAIN _navigationModes
       THEN \* lines 192-194
            /\ modeState' = ApplyCalls(modeState, <<off>>)
            /\ last' = Op("set", id, FALSE, << >>, 0, "UnknownMode",
                          <<off>>, << >>, Before)
            /\ UNCHANGED _mode
            /\ SetFrame
       ELSE \* lines 195-196
            LET new == _navigationModes[id]
                on  == SetCall(new, TRUE, FALSE)
            IN /\ _mode' = new
               /\ modeState' = ApplyCalls(modeState, <<off, on>>)
               /\ last' = Op("set", id, FALSE, << >>, 0, "ok",
                             <<off, on>>, << >>, Before)
               /\ SetFrame

set(id) ==
    IF mode = "NotInitialized"
    THEN setUninitialized(id)                      \* line 189
    ELSE IF IsCurrent(id)
    THEN \* line 190
         /\ last' = Op("set", id, FALSE, << >>, 0, "ok", << >>, << >>, Before)
         /\ UNCHANGED <<_mode, modeState>>
         /\ SetFrame
    ELSE setSwitch(id)

----------------------------------------------------------------------------
(* setUserInput(active), lines 240-265 *)

disableUserInput ==
    /\ _userInputButtons' = [b \in Buttons |-> mouseButtons[b]]  \* lines 249-252
    /\ mouseButtons' = [b \in Buttons |-> 0]                     \* lines 253-256

\* the restore with the right button read from the captured left one
enableUserInput_copyPaste ==
    IF DOMAIN _userInputButtons = {}
    THEN UNCHANGED <<mouseButtons, _userInputButtons>>
    ELSE /\ mouseButtons' = [b \in Buttons |->
                                IF b = "right" THEN _userInputButtons["left"]
                                ELSE _userInputButtons[b]]
         /\ UNCHANGED _userInputButtons

\* the restore without the test of line 260: with nothing captured every
\* binding is overwritten
enableUserInput_noGuard ==
    /\ mouseButtons' = [b \in Buttons |->
                           IF b \in DOMAIN _userInputButtons
                           THEN _userInputButtons[b] ELSE 0]
    /\ UNCHANGED _userInputButtons

enableUserInput ==
    IF DOMAIN _userInputButtons = {}
    THEN UNCHANGED <<mouseButtons, _userInputButtons>>           \* line 260
    ELSE /\ mouseButtons' = [b \in Buttons |-> _userInputButtons[b]]
         /\ UNCHANGED _userInputButtons

setUserInput(active) ==
    /\ IF active THEN enableUserInput ELSE disableUserInput
    /\ inputDisabled' = ~active
    /\ beforeDisable' = IF active THEN beforeDisable ELSE mouseButtons
    /\ everDisabled' = (everDisabled \/ ~active)
    /\ beforeFirstDisable' = IF ~active /\ ~inputDisabled THEN mouseButtons
                              ELSE beforeFirstDisable
    /\ last' = Op("setUserInput", "", active, << >>, 0, "ok", << >>, << >>,
                  Before)
    /\ UNCHANGED <<worldCount, _mode, _navigationModes, modeState, enabled,
                   cameras>>

----------------------------------------------------------------------------
(* Numbers.  A double is an integer count of the smallest positive double:  *)
(* Number.MIN_VALUE is 1, one coordinate unit is Unit of them, and a value  *)
(* of coordinate magnitude is representable only on the half-unit grid, so  *)
(* that adding MIN_VALUE to it is absorbed by rounding.                     *)

Unit == 8

Half == Unit \div 2

MIN_VALUE == 1                  \* line 210: Number.MIN_VALUE, 5e-324

MAX_VALUE == 1000 * Unit        \* line 209: Number.MAX_VALUE

\* round to nearest, ties to even
RoundTo(x, g) ==
    LET r == x % g
        lo == x - r
    IN IF 2 * r < g THEN lo
       ELSE IF 2 * r > g THEN lo + g
       ELSE IF (lo \div g) % 2 = 0 THEN lo ELSE lo + g

\* the double nearest to the exact value x
Fl(x) == IF -Half < x /\ x < Half THEN x ELSE RoundTo(x, Half)

\* the double nearest to n / 2
HalfOf(n) ==
    IF n % 2 = 0 THEN Fl(n \div 2)
    ELSE LET q == n \div 2 IN Fl(IF q % 2 = 0 THEN q ELSE q + 1)

Max2(a, b) == IF a > b THEN a ELSE b

Min2(a, b) == IF a < b THEN a ELSE b

Max3(v) == Max2(v[1], Max2(v[2], v[3]))

----------------------------------------------------------------------------
(* fit(meshes, offset), lines 206-233 *)

\* offset in halves; the default parameter value 1.5 (line 206)
DefaultOffset == 3

\* lines 214-222: fold the boxes of the meshes into the running min and max
RECURSIVE FoldBoxes(_, _, _)
FoldBoxes(meshes, min, max) ==
    IF meshes = << >> THEN [min |-> min, max |-> max]
    ELSE LET box == Head(meshes)
         IN FoldBoxes(Tail(meshes),
                [i \in 1..3 |-> IF box.min[i] < min[i] THEN box.min[i] ELSE min[i]],
                [i \in 1..3 |-> IF box.max[i] > max[i] THEN box.max[i] ELSE max[i]])

\* THREE.Box3.isEmpty
IsEmpty(box) == \E i \in 1..3 : box.max[i] < box.min[i]

\* THREE.Box3.getSize, line 227
GetSize(box) ==
    IF IsEmpty(box) THEN <<0, 0, 0>>
    ELSE [i \in 1..3 |-> Fl(box.max[i] - box.min[i])]

\* THREE.Box3.getCenter, line 229
GetCenter(box) ==
    IF IsEmpty(box) THEN <<0, 0, 0>>
    ELSE [i \in 1..3 |-> HalfOf(Fl(box.min[i] + box.max[i]))]

\* lines 209-231: the sphere handed to controls.fitToSphere
FitSphere(meshes, offset) ==
    LET box == FoldBoxes(meshes,
                         <<MAX_VALUE, MAX_VALUE, MAX_VALUE>>,
                         <<MIN_VALUE, MIN_VALUE, MIN_VALUE>>)
    IN [center |-> GetCenter(box),
        radius |-> HalfOf(Max3(GetSize(box)) * offset)]

\* fit without the test of line 207
fit_unguarded(meshes, offset) ==
    /\ last' = Op("fit", "", FALSE, meshes, offset, "ok", << >>,
                  <<FitSphere(meshes, offset)>>, Before)
    /\ UNCHANGED <<worldCount, _mode, _navigationModes, modeState,
                   mouseButtons, _userInputButtons, enabled, inputDisabled,
                   beforeDisable, history, cameras>>

fit(meshes, offset) ==
    /\ last' = Op("fit", "", FALSE, meshes, offset, "ok", << >>,
                  IF ~enabled THEN << >>                          \* line 207
                  ELSE <<FitSphere(meshes, offset)>>,             \* line 232
                  Before)
    /\ UNCHANGED <<worldCount, _mode, _navigationModes, modeState,
                   mouseButtons, _userInputButtons, enabled, inputDisabled,
                   beforeDisable, history, cameras>>

----------------------------------------------------------------------------
(* The camera pair, lines 151-165 and 267-303.  A length is an integer     *)
(* count of 1/LengthScale; an aspect ratio is counted in halves; the       *)
(* trigonometric functions are tabulated to three decimals.                *)

LengthScale == 4000

\* line 140
_frustumSize == 50

\* Math.atan((fov * (Math.PI / 180)) / 2), line 294, in 1/LengthScale
AtanHalfFov(fov) ==
    CASE fov = 50 -> 1644       \* atan(0.436332) = 0.411
      [] fov = 60 -> 1928       \* atan(0.523599) = 0.482
      [] fov = 90 -> 2664       \* atan(0.785398) = 0.666

Dot(a, b) == a[1] * b[1] + a[2] * b[2] + a[3] * b[3]

\* lines 267-277, with aspect = window.innerWidth / window.innerHeight
newOrthoCamera(aspect) ==
    [left   |-> -((_frustumSize * LengthScale * aspect) \div 2) \div 2,
     right  |-> ((_frustumSize * LengthScale * aspect) \div 2) \div 2,
     top    |-> (_frustumSize * LengthScale) \div 2,
     bottom |-> -((_frustumSize * LengthScale) \div 2),
     zoom   |-> 1]

\* lines 297-301 with the bottom extent given the sign of the top one
OrthoExtents_bottomSign(persp, aspect) ==
    LET distance == [i \in 1..3 |-> persp.target[i] - persp.position[i]]
        depth    == Dot(distance, persp.lineOfSight)
        height   == depth * 2 * AtanHalfFov(persp.fov)
        width    == (height * aspect) \div 2
    IN [left   |-> -(width \div 2),
        right  |-> width \div 2,
        top    |-> height \div 2,
        bottom |-> height \div 2,
        zoom   |-> 1]

\* lines 284-301: the extents and zoom setOrthoCameraAspect writes
OrthoExtents(persp, aspect) ==
    LET distance == [i \in 1..3 |-> persp.target[i] - persp.position[i]]  \* line 288
        depth    == Dot(distance, persp.lineOfSight)                      \* line 290
        height   == depth * 2 * AtanHalfFov(persp.fov)                    \* line 294
        width    == (height * aspect) \div 2                              \* line 295
    IN [left   |-> -(width \div 2),
        right  |-> width \div 2,
        top    |-> height \div 2,
        bottom |-> -(height \div 2),
        zoom   |-> 1]

\* the record of one call of setOrthoCameraAspect
SyncCall(hasRenderer, persp, aspect) ==
    [world |-> worldCount >= 1, renderer |-> hasRenderer, persp |-> persp,
     aspect |-> aspect, zoomBefore |-> threeOrtho.zoom]

\* lines 279-303; currentWorld is set once a world is bound, and hasRenderer
\* tells whether that world has a renderer when the call is made
setOrthoCameraAspect(hasRenderer, persp, aspect) ==
    IF ~(worldCount >= 1) \/ ~hasRenderer
    THEN UNCHANGED threeOrtho                                     \* lines 280-282
    ELSE threeOrtho' = OrthoExtents(persp, aspect)

\* lines 157-159: the onAspectUpdated handler
onAspectUpdated(hasRenderer, persp, aspect) ==
    /\ setOrthoCameraAspect(hasRenderer, persp, aspect)
    /\ last' = [Op("aspectUpdated", "", FALSE, << >>, 0, "ok", << >>, << >>,
                   Before)
                EXCEPT !.sync = <<SyncCall(hasRenderer, persp, aspect)>>]
    /\ UNCHANGED <<worldCount, _mode, _navigationModes, modeState,
                   mouseButtons, _userInputButtons, enabled, inputDisabled,
                   beforeDisable, history, three>>

\* the cameras a projection-change notification carries
Cameras == {"persp", "ortho"}

\* lines 161-165: the projection.onChanged handler
onProjectionChanged(camera) ==
    /\ three' = camera
    /\ last' = Op("projectionChanged", camera, FALSE, << >>, 0, "ok", << >>,
                  << >>, Before)
    /\ UNCHANGED <<worldCount, _mode, _navigationModes, modeState,
                   mouseButtons, _userInputButtons, enabled, inputDisabled,
                   beforeDisable, history, threeOrtho>>

\* the zoom factors the pointer controller gives the orthographic camera
Zooms == {1, 2}

\* the pointer controller zooms the orthographic camera
controlsZoom(zoom) ==
    /\ threeOrtho' = [threeOrtho EXCEPT !.zoom = zoom]
    /\ last' = Op("zoom", "", FALSE, << >>, 0, "ok", << >>, << >>, Before)
    /\ UNCHANGED <<worldCount, _mode, _navigationModes, modeState,
                   mouseButtons, _userInputButtons, enabled, inputDisabled,
                   beforeDisable, history, three>>

----------------------------------------------------------------------------
(* Inputs *)

ButtonCodes == 0..MaxCode

\* every assignment of the four button bindings
AllBindings == [Buttons -> ButtonCodes]

\* the bindings the camera starts with in the full state machine
InitialBindings ==
    { [b \in Buttons |-> CASE b = "left" -> 1 [] b = "right" -> 2
                           [] b = "middle" -> 4 [] b = "wheel" -> 8],
      [b \in Buttons |-> CASE b = "left" -> 1 [] b = "right" -> 0
                           [] b = "middle" -> 1 [] b = "wheel" -> 2] }

Box(lo, hi) ==
    [min |-> [i \in 1..3 |-> lo[i] * Unit], max |-> [i \in 1..3 |-> hi[i] * Unit]]

\* bounding boxes of the meshes of the scene, as Box3.setFromObject gives them
MeshBoxes ==
    { Box(<<-1, -1, -1>>, <<1, 1, 1>>),
      Box(<<0, 0, 0>>, <<3, 3, 3>>),
      Box(<<-3, -2, -3>>, <<-1, -1, -2>>) }

MeshLists == UNION { [1..n -> MeshBoxes] : n \in 0..MaxMeshes }

Offsets == {DefaultOffset, 4}

\* the mesh collections fit is called with in the full state machine
SceneLists ==
    { << >>,
      <<Box(<<-1, -1, -1>>, <<1, 1, 1>>), Box(<<0, 0, 0>>, <<3, 3, 3>>)>>,
      <<Box(<<-3, -2, -3>>, <<-1, -1, -2>>)>> }

\* states of the perspective camera and the controller's target
Persp(position, target, lineOfSight, fov) ==
    [position |-> position, target |-> target, lineOfSight |-> lineOfSight,
     fov |-> fov]

PerspStates ==
    { Persp(<<0, 0, 10>>, <<0, 0, 0>>, <<0, 0, -1>>, 50),
      Persp(<<4, 1, 0>>, <<-2, 3, 0>>, <<-1, 0, 0>>, 90),
      Persp(<<1, 8, 2>>, <<1, 0, 5>>, <<0, -1, 0>>, 60) }

\* viewport aspect ratios, in halves: 1, 1.5, 2
Aspects == {2, 3, 4}

\* the perspective state and aspect of the frustum example: FOV 50, depth 10,
\* aspect 1.5
ExamplePersp == Persp(<<0, 0, 10>>, <<0, 0, 0>>, <<0, 0, -1>>, 50)

ExampleAspect == 3

----------------------------------------------------------------------------
(* The state machine of the camera *)

InitWith(bindings) ==
    /\ worldCount = 0
    /\ _mode = NULL                                 \* line 130
    /\ _navigationModes = [id \in {} |-> NULL]      \* line 142
    /\ modeState = [i \in {} |-> NULL]
    /\ mouseButtons \in bindings
    /\ _userInputButtons = EmptyObject              \* line 138
    /\ enabled \in BOOLEAN
    /\ inputDisabled = FALSE
    /\ beforeDisable = mouseButtons
    /\ last = NoOp
    /\ everDisabled = FALSE
    /\ beforeFirstDisable = mouseButtons
    /\ three = "persp"                              \* line 153
    /\ threeOrtho = newOrthoCamera(ExampleAspect)   \* line 154

Init == InitWith(InitialBindings)

Next ==
    \/ onWorldChanged
    \/ getMode
    \/ \E id \in NavModeIDs \cup UnknownIDs : set(id)
    \/ \E active \in BOOLEAN : setUserInput(active)
    \/ \E meshes \in SceneLists : fit(meshes, DefaultOffset)

Spec == Init /\ [][Next]_vars

----------------------------------------------------------------------------
(* The user-input and fit operations alone, over every binding assignment   *)
(* and every list of meshes                                                 *)

InitInput == InitWith(AllBindings)

NextInput ==
    \/ \E active \in BOOLEAN : setUserInput(active)
    \/ \E meshes \in MeshLists, offset \in Offsets : fit(meshes, offset)

SpecInput == InitInput /\ [][NextInput]_vars

----------------------------------------------------------------------------
(* The camera pair: world-bind events, aspect-ratio changes, projection     *)
(* changes and zooming, over every perspective state and aspect ratio       *)

InitFrustum ==
    /\ InitWith(InitialBindings)
    /\ enabled

NextFrustum ==
    \/ onWorldChanged
    \/ \E hasRenderer \in BOOLEAN, persp \in PerspStates, aspect \in Aspects :
          onAspectUpdated(hasRenderer, persp, aspect)
    \/ \E camera \in Cameras : onProjectionChanged(camera)
    \/ \E zoom \in Zooms : controlsZoom(zoom)

SpecFrustum == InitFrustum /\ [][NextFrustum]_vars

----------------------------------------------------------------------------
(* Every operation of the camera, the new ones on the example inputs        *)

ExampleBindings ==
    [b \in Buttons |-> CASE b = "left" -> 1 [] b = "right" -> 2
                          [] b = "middle" -> 4 [] b = "wheel" -> 8]

ExampleMeshes ==
    <<Box(<<-1, -1, -1>>, <<1, 1, 1>>), Box(<<0, 0, 0>>, <<3, 3, 3>>)>>

InitCamera ==
    /\ InitWith({ExampleBindings})
    /\ enabled

NextCamera ==
    \/ onWorldChanged
    \/ getMode
    \/ \E id \in NavModeIDs \cup UnknownIDs : set(id)
    \/ \E active \in BOOLEAN : setUserInput(active)
    \/ fit(ExampleMeshes, DefaultOffset)
    \/ \E hasRenderer \in BOOLEAN :
          onAspectUpdated(hasRenderer, ExamplePersp, ExampleAspect)
    \/ \E camera \in Cameras : onProjectionChanged(camera)

SpecCamera == InitCamera /\ [][NextCamera]_vars

----------------------------------------------------------------------------
(* Navigation modes *)

\* the last operation was set(id), called after a world-bind event
SetAfterBind == last.op = "set" /\ last.before.mode # NULL

\* C1: after a world-bind event, set(id) with id one of Orbit, FirstPerson,
\* Plan returns without error from every current mode, and mode.id is id
\* immediately afterwards.
C1_SetThenModeId ==
    (SetAfterBind /\ last.modeArg \in NavModeIDs) =>
        /\ last.result = "ok"
        /\ mode = "ok"
        /\ modeState[_mode].id = last.modeArg

\* set("Plan") has just switched from FirstPerson to Plan
C1_Witness ==
    /\ SetAfterBind
    /\ last.modeArg = "Plan"
    /\ modeState[last.before.mode].id = "FirstPerson"
    /\ last.result = "ok"
    /\ modeState[_mode].id = "Plan"

\* C2: after a world-bind event, set(id) with an id that is not in the
\* registry fails with UnknownMode and leaves the previously active mode
\* unchanged: the current mode is the instance it was before the call and
\* that instance is still activated.
C2_UnknownModeKeepsActive ==
    (SetAfterBind /\ last.modeArg \notin DOMAIN _navigationModes) =>
        /\ last.result = "UnknownMode"
        /\ _mode = last.before.mode
        /\ (last.before.active => modeState[_mode].lastSet = "true")

\* C3: the registry lookup of set(id) comes before any deactivation: with id
\* absent from the registry no set(false) and no set(true) call is made on
\* any mode, and set(false) is called on the current mode only when id is in
\* the registry and differs from the current id.
C3_LookupBeforeDeactivation ==
    last.op = "set" =>
        /\ (last.modeArg \notin DOMAIN _navigationModes => last.calls = << >>)
        /\ \A k \in DOMAIN last.calls :
              ~last.calls[k].active =>
                  /\ last.modeArg \in DOMAIN _navigationModes
                  /\ modeState[last.before.mode].id # last.modeArg

\* C4: set(id) with id the current mode's id makes no set(false) and no
\* set(true) call on any mode and leaves the current mode, the registry, the
\* input snapshot and the button bindings unchanged.
C4_SetCurrentIsNoOp ==
    [][(/\ last'.op = "set"
        /\ _mode # NULL
        /\ modeState[_mode].id = last'.modeArg)
       => /\ last'.calls = << >>
          /\ last'.result = "ok"
          /\ UNCHANGED <<_mode, _navigationModes, modeState,
                         _userInputButtons, mouseButtons>>]_vars

\* set("Plan") was called with Plan current and a captured input snapshot
C4_Witness ==
    /\ SetAfterBind
    /\ last.modeArg = "Plan"
    /\ modeState[last.before.mode].id = "Plan"
    /\ last.calls = << >>
    /\ _mode = last.before.mode
    /\ DOMAIN _userInputButtons = Buttons
    /\ inputDisabled

\* C5: in every state reached without a world-bind event the mode getter
\* fails with NotInitialized, whatever other operations were called; after
\* the first world-bind event it never fails.
C5_GetterFailsUntilBind ==
    /\ mode = (IF worldCount = 0 THEN "NotInitialized" ELSE "ok")
    /\ last.op = "mode" =>
          last.result = (IF worldCount = 0 THEN "NotInitialized" ELSE "ok")

\* the getter was read, and failed, after set and setUserInput calls but
\* before any world-bind event
C5_Witness ==
    /\ worldCount = 0
    /\ last.op = "mode"
    /\ last.result = "NotInitialized"
    /\ inputDisabled

\* C6: after every world-bind event, whatever mode was active before it, the
\* active mode is Orbit, activated by set(true) with preventTargetAdjustment
\* = true; every activation made by set(id) is without the option.
C6_OrbitAfterBind ==
    /\ last.op = "worldChanged" =>
          /\ _mode = _navigationModes["Orbit"]
          /\ modeState[_mode] = [id |-> "Orbit", lastSet |-> "true",
                                 prevent |-> TRUE]
          /\ last.calls = <<SetCall(_mode, TRUE, TRUE)>>
    /\ last.op = "set" =>
          \A k \in DOMAIN last.calls :
              last.calls[k].active => ~last.calls[k].prevent

\* a second world-bind event arrived while Plan was the active mode
C6_Witness ==
    /\ last.op = "worldChanged"
    /\ last.before.mode # NULL
    /\ modeState[last.before.mode].id = "Plan"
    /\ last.before.active
    /\ modeState[_mode].id = "Orbit"
    /\ modeState[_mode].prevent

----------------------------------------------------------------------------
(* User input *)

\* C7: round trip of user input: for every assignment of the four button
\* bindings, setUserInput(false) sets all four to 0 and a following
\* setUserInput(true) restores all four to the values they had before the
\* disable.
C7_InputRoundTrip ==
    last.op = "setUserInput" =>
        IF ~last.activeArg
        THEN mouseButtons = NoButtons
        ELSE last.before.inputDisabled => mouseButtons = beforeDisable

\* setUserInput(true) has just followed a disable of bindings that were not
\* all equal
C7_Witness ==
    /\ last.op = "setUserInput"
    /\ last.activeArg
    /\ last.before.inputDisabled
    /\ mouseButtons = beforeDisable
    /\ mouseButtons["left"] # mouseButtons["right"]
    /\ mouseButtons["middle"] # mouseButtons["wheel"]

\* C8 as stated: while user input is disabled, fit returns without calling
\* the controller's fit-to-sphere operation.
C8_NoFitWhileInputDisabled ==
    (last.op = "fit" /\ inputDisabled) => last.fitCalls = << >>

\* C8, amended: while the camera's enabled flag is false, fit returns without
\* calling the controller's fit-to-sphere operation, whether or not user
\* input is disabled.
C8_NoFitWhileNotEnabled ==
    (last.op = "fit" /\ ~enabled) => last.fitCalls = << >>

\* fit was called on a non-empty collection with the camera not enabled
C8_Witness ==
    /\ last.op = "fit"
    /\ ~enabled
    /\ last.meshes # << >>
    /\ last.fitCalls = << >>
    /\ ~inputDisabled

----------------------------------------------------------------------------
(* fit *)

\* the union of the boxes: component-wise minimum of the minima and maximum
\* of the maxima
RECURSIVE UnionBox(_)
UnionBox(meshes) ==
    IF Len(meshes) = 1 THEN Head(meshes)
    ELSE LET rest == UnionBox(Tail(meshes))
             box  == Head(meshes)
         IN [min |-> [i \in 1..3 |-> Min2(box.min[i], rest.min[i])],
             max |-> [i \in 1..3 |-> Max2(box.max[i], rest.max[i])]]

\* the sphere the claim describes; coordinates are multiples of Unit, so the
\* divisions by two are exact
UnionSphere(meshes, offset) ==
    LET u == UnionBox(meshes)
    IN [center |-> [i \in 1..3 |-> (u.min[i] + u.max[i]) \div 2],
        radius |-> (offset * Max3([i \in 1..3 |-> u.max[i] - u.min[i]])) \div 2]

\* C9: for every non-empty collection of meshes, boxes with all-negative
\* coordinates included, fit passes the controller the sphere centred at the
\* centre of the union box with radius offset times the largest of the union
\* box's three extents.
C9_FitSphereOfUnionBox ==
    (last.op = "fit" /\ last.meshes # << >> /\ enabled) =>
        last.fitCalls = <<UnionSphere(last.meshes, last.offset)>>

\* C10: fit with an empty mesh collection is a no-op or an error: it never
\* calls the controller's fit-to-sphere operation with a sphere derived from
\* the untouched running min/max box.
C10_EmptyFitMakesNoCall ==
    (last.op = "fit" /\ last.meshes = << >>) => last.fitCalls = << >>

----------------------------------------------------------------------------
(* Navigation modes, continued *)

\* the instances whose last set call was set(true)
Activated == { i \in DOMAIN modeState : modeState[i].lastSet = "true" }

\* C11: exactly one navigation mode is active at any time: in every state
\* after the first world-bind event exactly one instance is activated (its
\* last set call was set(true)) and it is the instance the getter returns.
C11_ExactlyOneActive ==
    worldCount >= 1 => Activated = {_mode}

\* C16: every successful mode change made by set(id) calls set(false) on the
\* old mode once, then set(true) on the new mode once, and calls set on no
\* third mode.
C16_DeactivateThenActivate ==
    (last.op = "set" /\ last.result = "ok" /\ _mode # last.before.mode) =>
        last.calls = <<SetCall(last.before.mode, FALSE, FALSE),
                       SetCall(_mode, TRUE, FALSE)>>

\* set("FirstPerson") has just changed the mode from Plan
C16_Witness ==
    /\ last.op = "set"
    /\ last.result = "ok"
    /\ last.before.mode # NULL
    /\ _mode # last.before.mode
    /\ modeState[last.before.mode].id = "Plan"
    /\ modeState[_mode].id = "FirstPerson"
    /\ Len(last.calls) = 2

\* C18: every world-bind event rebuilds the registry with three instances
\* that did not exist before it, and in every state after the first
\* world-bind event the registry holds exactly the ids Orbit, FirstPerson and
\* Plan, each mapped to an instance of that id, and the current mode is the
\* instance the registry maps its own id to.
C18_RegistryRebuilt ==
    /\ [](worldCount >= 1 =>
            /\ DOMAIN _navigationModes = NavModeIDs
            /\ \A id \in NavModeIDs :
                  modeState[_navigationModes[id]].id = id
            /\ Cardinality({_navigationModes[id] : id \in NavModeIDs}) = 3
            /\ _navigationModes[modeState[_mode].id] = _mode)
    /\ [][worldCount' # worldCount =>
            \A id \in NavModeIDs :
                _navigationModes'[id] \notin DOMAIN modeState]_vars

\* a second world-bind event has replaced a registry whose Plan mode was current
C18_Witness ==
    /\ worldCount = 2
    /\ last.op = "worldChanged"
    /\ modeState[last.before.mode].id = "Plan"
    /\ _navigationModes["Plan"] # last.before.mode
    /\ _mode = _navigationModes["Orbit"]

\* C20: set(id) called before any world-bind event fails, for every id, with
\* NotInitialized, makes no set call on any mode and leaves the registry
\* empty and the current mode unset.
C20_SetBeforeBindFails ==
    (last.op = "set" /\ worldCount = 0) =>
        /\ last.result = "NotInitialized"
        /\ last.calls = << >>
        /\ DOMAIN _navigationModes = {}
        /\ _mode = NULL
        /\ DOMAIN modeState = {}

\* set("Orbit") was called, and failed, before any world-bind event
C20_Witness ==
    /\ worldCount = 0
    /\ last.op = "set"
    /\ last.modeArg = "Orbit"
    /\ last.result = "NotInitialized"

----------------------------------------------------------------------------
(* User input, continued *)

\* C14: setUserInput(true) with no earlier setUserInput(false) on this
\* instance is a no-op: the four button bindings keep their values.
C14_EnableWithoutCaptureIsNoOp ==
    [][(last'.op = "setUserInput" /\ last'.activeArg /\ ~everDisabled)
       => UNCHANGED <<mouseButtons, _userInputButtons>>]_vars

\* setUserInput(true) was called first, on bindings that are not all zero
C14_Witness ==
    /\ last.op = "setUserInput"
    /\ last.activeArg
    /\ ~everDisabled
    /\ mouseButtons["left"] # 0
    /\ mouseButtons["left"] # mouseButtons["wheel"]

\* C19: the input snapshot holds the bindings in force before input was
\* disabled: after any sequence of setUserInput calls, two or more
\* setUserInput(false) in a row included, the next setUserInput(true)
\* restores the four bindings to the values they had before the first of
\* those disables.
C19_RepeatedDisableKeepsSnapshot ==
    (last.op = "setUserInput" /\ last.activeArg /\ last.before.inputDisabled) =>
        mouseButtons = beforeFirstDisable

----------------------------------------------------------------------------
(* The camera pair *)

\* tan(fov / 2) with fov in degrees, in 1/LengthScale
TanHalfFov(fov) ==
    CASE fov = 50 -> 1864       \* tan(25 deg) = 0.466
      [] fov = 60 -> 2308       \* tan(30 deg) = 0.577
      [] fov = 90 -> 4000       \* tan(45 deg) = 1.000

\* the last operation ran a frustum synchronization with a bound world and a
\* renderer
Synced ==
    /\ last.op = "aspectUpdated"
    /\ last.sync[1].world
    /\ last.sync[1].renderer

\* C12: the frustum synchronization runs on every aspect-ratio change and on
\* every world-bind event: after each such event the orthographic extents
\* have been rewritten from the perspective camera's state.
C12_SyncOnAspectAndWorldBind ==
    last.op \in {"aspectUpdated", "worldChanged"} =>
        /\ Len(last.sync) = 1
        /\ (last.sync[1].world /\ last.sync[1].renderer) =>
              threeOrtho = OrthoExtents(last.sync[1].persp, last.sync[1].aspect)

\* C13: the synchronization computes height = depth * 2 * tan(fov / 2), with
\* depth the dot product of (target - position) with the forward direction,
\* and width = height * viewport aspect.
C13_HeightFromTan ==
    Synced =>
        LET p      == last.sync[1].persp
            depth  == Dot([i \in 1..3 |-> p.target[i] - p.position[i]],
                          p.lineOfSight)
            height == depth * 2 * TanHalfFov(p.fov)
        IN /\ threeOrtho.top - threeOrtho.bottom = height
           /\ 2 * (threeOrtho.right - threeOrtho.left) =
                 height * last.sync[1].aspect

\* C15: the published current camera is always one of the two cameras of the
\* pair, the perspective one initially, and changes only on a
\* projection-change notification: set(id), setUserInput, fit, world-bind
\* events and frustum synchronization leave it unchanged.
C15_CurrentCameraFrame ==
    /\ [](three \in Cameras)
    /\ [](last.op = "none" => three = "persp")
    /\ [][three' # three => last'.op = "projectionChanged"]_vars

\* a world-bind event arrived while the orthographic camera was published
C15_Witness ==
    /\ three = "ortho"
    /\ last.op = "worldChanged"
    /\ worldCount = 2

\* C17: the orthographic extents are symmetric around zero in every state;
\* after every synchronization that runs with a bound world and renderer the
\* zoom is 1 and right - left = (top - bottom) * viewport aspect; a
\* synchronization attempted with no bound world or renderer leaves extents
\* and zoom unchanged.
C17_SymmetricExtents ==
    /\ [](/\ threeOrtho.left = -threeOrtho.right
          /\ threeOrtho.bottom = -threeOrtho.top)
    /\ [](Synced =>
            /\ threeOrtho.zoom = 1
            /\ 2 * (threeOrtho.right - threeOrtho.left) =
                  (threeOrtho.top - threeOrtho.bottom) * last.sync[1].aspect)
    /\ [][(/\ last'.op = "aspectUpdated"
           /\ ~(worldCount >= 1 /\ last'.sync[1].renderer))
          => UNCHANGED threeOrtho]_vars

\* a synchronization has just rewritten the extents of a zoomed camera
C17_Witness ==
    /\ Synced
    /\ last.sync[1].zoomBefore = 2
    /\ last.sync[1].aspect = 3
    /\ threeOrtho.zoom = 1
    /\ threeOrtho # newOrthoCamera(ExampleAspect)

====
